---- MODULE Spec2Model ----
(***************************************************************************)
(* Model of src/src/srs_scheduler.py (class SRSScheduler), with the Anki   *)
(* exporter of src/src/utils/export_helpers.py, add_documents of           *)
(* src/src/rag_system.py and the budget check of src/src/cost_tracker.py.  *)
(*                                                                         *)
(* Representation.                                                         *)
(*   - ease factors are integers in hundredths (2.5 is 250, 1.3 is 130);   *)
(*     every ease factor of the code is a multiple of 0.01, and for the    *)
(*     intervals modelled the exact product interval * ease rounds like    *)
(*     the IEEE product does;                                              *)
(*   - dates are day numbers; a DataFrame cell holding a date is a record  *)
(*     [kind, day]: "date" a datetime.date, "str" its ISO string, "none"   *)
(*     None, "bad" a string pd.to_datetime cannot parse;                   *)
(*   - self.cards is never assigned by the class itself; the attribute     *)
(*     being absent and the attribute being an empty dict are the same to  *)
(*     the test at line 82, and both are the empty function here;          *)
(*   - a DataFrame is the sequence of its rows.                            *)
(***************************************************************************)
EXTENDS Integers, Sequences, FiniteSets

VARIABLES
    initial_interval,   \* self.initial_interval (constructor argument)
    today,              \* the calendar date datetime.now().date() returns
    cards,              \* self.cards, as a client may attach it
    df,                 \* the DataFrame of cards the caller holds
    last,               \* <<>> or <<the last update_srs call and its return value>>
    due,                \* <<>> or <<the outcome of the last get_due_cards call>>
    session,            \* <<>> or <<the outcome of the last suggest_study_session call>>
    calls,              \* the calls in flight when callers run concurrently, by thread
    content,            \* the content frame last passed to initialize_srs_metadata
    exported,           \* the files the Anki exporters have written, oldest first
    stats,              \* <<>> or <<the outcome of the last get_learning_statistics call>>
    documents,          \* MultilingualRAGSystem.documents
    document_metadata,  \* MultilingualRAGSystem.document_metadata
    usage_data,         \* TokenTracker.usage_data (daily_usage and the budget keys)
    clock,              \* the month and day datetime.now() returns to the tracker
    budget_status       \* <<>> or <<the outcome of the last check_budget_status call>>

vars == <<initial_interval, today, cards, df, last, due, session, calls, content,
          exported, stats, documents, document_metadata, usage_data, clock, budget_status>>

\* No file exported and no statistics report asked for yet.
NoReports ==
    /\ exported = << >>
    /\ stats = << >>

\* MultilingualRAGSystem.__init__: documents and document_metadata start empty.
NewRagSystem ==
    /\ documents = << >>
    /\ document_metadata = << >>

\* TokenTracker.__init__ with no stored file: _create_empty_usage_data, where
\* the keys budget_limit and alert_thresholds are absent (here << >>).
NewTokenTracker ==
    /\ usage_data = [daily_usage |-> << >>, budget_limit |-> << >>, alert_thresholds |-> << >>]
    /\ clock = [month |-> 1, day |-> 1]
    /\ budget_status = << >>

-----------------------------------------------------------------------------
(* Bounds of the model *)

MaxCards == 2
MaxDay == 2
MaxInitialInterval == 1
QualityOver == 2
MaxResponse == 1
MaxSessionCards == 3
MaxTarget == 5
MaxExportCards == 2
MaxExports == 4
MaxDocuments == 4
MaxBatch == 2
MaxLiveCards == 1
MaxRequests == 2
MaxMonthDay == 2

CardIds == 0 .. (MaxCards - 1)
Days == 0 .. MaxDay
InitialIntervals == 0 .. MaxInitialInterval
\* every quality of the scale, and one out of range on each side
Qualities == (0 .. 5) \cup {0 - QualityOver, 5 + QualityOver}
ResponseTimes == {0, 1 + MaxResponse}

\* Card records a client can hold in self.cards: a fresh card, a card after
\* one success, cards further on (one with an odd half product, 1 * 2.5, one
\* with the ease factor at the floor, the card of a long streak).
PriorStates ==
    { [interval |-> 1,  ease_factor |-> 250, repetitions |-> 0],
      [interval |-> 1,  ease_factor |-> 250, repetitions |-> 1],
      [interval |-> 1,  ease_factor |-> 250, repetitions |-> 2],
      [interval |-> 5,  ease_factor |-> 130, repetitions |-> 3],
      [interval |-> 10, ease_factor |-> 200, repetitions |-> 4] }

-----------------------------------------------------------------------------
(* SRSScheduler.__init__ *)

min_ease_factor == 130
default_ease_factor == 250

Max(a, b) == IF a >= b THEN a ELSE b
Min(a, b) == IF a <= b THEN a ELSE b

\* Python's round() of the non-negative rational n / d: to nearest, ties to even.
Round(n, d) ==
    LET q == n \div d
        r == n % d
    IN  IF 2 * r > d \/ (2 * r = d /\ q % 2 = 1) THEN q + 1 ELSE q

NoCell == [kind |-> "none", day |-> 0]
DateCell(d) == [kind |-> "date", day |-> d]

-----------------------------------------------------------------------------
(* SRSScheduler.initialize_srs_metadata *)

\* As NewRow, with the interval of the default configuration.
NewRowUnitInterval(i) ==
    [ card_id          |-> i,
      interval         |-> 1,
      ease_factor      |-> default_ease_factor,
      repetitions      |-> 0,
      last_review      |-> NoCell,
      next_review      |-> DateCell(today),
      quality_history  |-> << >>,
      total_reviews    |-> 0,
      total_time_spent |-> 0,
      avg_quality      |-> 0,
      card_status      |-> "new" ]

NewRow(i) ==
    [ card_id          |-> i,
      interval         |-> initial_interval,
      ease_factor      |-> default_ease_factor,
      repetitions      |-> 0,
      last_review      |-> NoCell,
      next_review      |-> DateCell(today),
      quality_history  |-> << >>,
      total_reviews    |-> 0,
      total_time_spent |-> 0,
      avg_quality      |-> 0,
      card_status      |-> "new" ]

\* A row of the content frame (text, language, cefr_level) with the SRS columns.
WithContent(item, row) ==
    [ text             |-> item.text,
      language         |-> item.language,
      cefr_level       |-> item.cefr_level,
      card_id          |-> row.card_id,
      interval         |-> row.interval,
      ease_factor      |-> row.ease_factor,
      repetitions      |-> row.repetitions,
      last_review      |-> row.last_review,
      next_review      |-> row.next_review,
      quality_history  |-> row.quality_history,
      total_reviews    |-> row.total_reviews,
      total_time_spent |-> row.total_time_spent,
      avg_quality      |-> row.avg_quality,
      card_status      |-> row.card_status ]

\* df_srs = df.copy() with the SRS columns added; card_id is the default index.
InitializeSrsMetadata(items) ==
    /\ df' = [i \in 1 .. Len(items) |-> WithContent(items[i], NewRow(i - 1))]
    /\ content' = items
    /\ UNCHANGED <<initial_interval, today, cards, last, due, session, calls,
                 exported, stats, documents, document_metadata, usage_data, clock, budget_status>>

-----------------------------------------------------------------------------
(* SRSScheduler.update_srs *)

\* quality = max(0, min(5, quality))
ClampNoUpper(quality) == Max(0, quality)
Clamp(quality) == Max(0, Min(5, quality))

\* if quality >= 3
IsCorrectOffByOne(quality) == quality >= 2
IsCorrect(quality) == quality >= 3

\* hasattr(self, 'cards') and card_id in self.cards
HasCard(card_id) == card_id \in DOMAIN cards

SuccessInterval(card) ==
    IF card.repetitions = 0 THEN 1
    ELSE IF card.repetitions = 1 THEN 6
    ELSE Round(card.interval * card.ease_factor, 100)

\* default_ease_factor + (0.1 - (5 - quality) * (0.08 + (5 - quality) * 0.02))
EaseOnSuccess(quality) ==
    Max(min_ease_factor,
        default_ease_factor + (10 - (5 - quality) * (8 + (5 - quality) * 2)))

EaseOnFailure == Max(min_ease_factor, default_ease_factor - 20)

\* The textbook SM-2 update, from the card's own ease factor and unfloored.
UpdateParamsIncremental(known, card, quality) ==
    IF IsCorrect(quality)
    THEN [ interval    |-> IF known THEN SuccessInterval(card) ELSE 1,
           repetitions |-> IF known THEN card.repetitions + 1 ELSE 1,
           ease_factor |-> (IF known THEN card.ease_factor ELSE default_ease_factor)
                           + (10 - (5 - quality) * (8 + (5 - quality) * 2)) ]
    ELSE [ interval |-> 1, repetitions |-> 0,
           ease_factor |-> (IF known THEN card.ease_factor ELSE default_ease_factor) - 20 ]

\* As UpdateParams, but a card the scheduler does not hold starts no streak.
UpdateParamsUnknownZero(known, card, quality) ==
    IF IsCorrect(quality)
    THEN [ interval    |-> IF known THEN SuccessInterval(card) ELSE 1,
           repetitions |-> IF known THEN card.repetitions + 1 ELSE 0,
           ease_factor |-> EaseOnSuccess(quality) ]
    ELSE [ interval |-> 1, repetitions |-> 0, ease_factor |-> EaseOnFailure ]

\* The interval, repetitions and ease factor of lines 81-105, for a clamped quality.
UpdateParams(known, card, quality) ==
    IF IsCorrect(quality)
    THEN [ interval    |-> IF known THEN SuccessInterval(card) ELSE 1,
           repetitions |-> IF known THEN card.repetitions + 1 ELSE 1,
           ease_factor |-> EaseOnSuccess(quality) ]
    ELSE [ interval |-> 1, repetitions |-> 0, ease_factor |-> EaseOnFailure ]

\* The value update_srs returns. The clock is read twice (lines 108 and 114):
\* first is the date of the first reading, second that of the second.
UpdateSrsResult(card_id, quality, response_time, first, second) ==
    LET q == Clamp(quality)
        known == HasCard(card_id)
        card == IF known THEN cards[card_id] ELSE [interval |-> 0, ease_factor |-> 0, repetitions |-> 0]
        p == UpdateParams(known, card, q)
    IN  [ interval      |-> p.interval,
          ease_factor   |-> p.ease_factor,
          repetitions   |-> p.repetitions,
          last_review   |-> second,
          next_review   |-> first + p.interval,
          quality       |-> q,
          response_time |-> response_time ]

\* As UpdateSrs, but storing the new interval in the interval column of the
\* frame, that is in every row.
UpdateSrsWholeColumn(card_id, quality, response_time, tick) ==
    /\ today + tick <= MaxDay
    /\ today' = today + tick
    /\ last' = << [ card_id       |-> card_id,
                    quality       |-> quality,
                    response_time |-> response_time,
                    result        |-> UpdateSrsResult(card_id, quality, response_time,
                                                      today, today + tick) ] >>
    /\ df' = [i \in 1 .. Len(df) |->
                [df[i] EXCEPT !.interval =
                    UpdateSrsResult(card_id, quality, response_time,
                                    today, today + tick).interval + 1]]
    /\ UNCHANGED <<initial_interval, cards, due, session, calls, content,
                 exported, stats, documents, document_metadata, usage_data, clock, budget_status>>

\* One call of update_srs; tick = 1 when midnight passes between the two
\* readings of the clock.
UpdateSrs(card_id, quality, response_time, tick) ==
    /\ today + tick <= MaxDay
    /\ today' = today + tick
    /\ last' = << [ card_id       |-> card_id,
                    quality       |-> quality,
                    response_time |-> response_time,
                    result        |-> UpdateSrsResult(card_id, quality, response_time,
                                                      today, today + tick) ] >>
    /\ UNCHANGED <<initial_interval, cards, df, due, session, calls, content,
                 exported, stats, documents, document_metadata, usage_data, clock, budget_status>>

\* Client code assigns scheduler.cards (the attribute line 82 looks for).
SetCards(card_id, card) ==
    /\ cards' = [c \in {card_id} |-> card]
    /\ UNCHANGED <<initial_interval, today, df, last, due, session, calls, content,
                 exported, stats, documents, document_metadata, usage_data, clock, budget_status>>

\* The calendar date advances.
Tick ==
    /\ today < MaxDay
    /\ today' = today + 1
    /\ UNCHANGED <<initial_interval, cards, df, last, due, session, calls, content,
                 exported, stats, documents, document_metadata, usage_data, clock, budget_status>>

-----------------------------------------------------------------------------
(* SRSScheduler.get_due_cards *)

StrCell(d) == [kind |-> "str", day |-> d]
BadCell == [kind |-> "bad", day |-> 0]

\* pd.to_datetime(...).dt.date on one cell: a date stays, an ISO string is parsed.
ToDate(cell) == IF cell.kind = "str" THEN DateCell(cell.day) ELSE cell

\* pd.to_datetime raises on a string that is no date (errors='raise').
Parses(frame) == \A i \in 1 .. Len(frame) : frame[i].next_review.kind # "bad"

\* df_srs['next_review'] = pd.to_datetime(df_srs['next_review']).dt.date
Normalised(frame) ==
    [i \in 1 .. Len(frame) |-> [frame[i] EXCEPT !.next_review = ToDate(@)]]

\* df_srs['next_review'] <= date
IsDueStrict(row, date) == row.next_review.day < date
IsDue(row, date) == row.next_review.day <= date

\* The order of sort_values(['next_review', 'ease_factor']).
BeforeByDateOnly(a, b) == a.next_review.day < b.next_review.day
Before(a, b) ==
    \/ a.next_review.day < b.next_review.day
    \/ a.next_review.day = b.next_review.day /\ a.ease_factor < b.ease_factor

\* row put into a sorted sequence, after the rows it does not precede.
Insert(sorted, row) ==
    LET k == Cardinality({i \in 1 .. Len(sorted) : ~Before(row, sorted[i])})
    IN  SubSeq(sorted, 1, k) \o <<row>> \o SubSeq(sorted, k + 1, Len(sorted))

RECURSIVE SortValues(_)
SortValues(rows) ==
    IF rows = << >> THEN << >>
    ELSE Insert(SortValues(SubSeq(rows, 1, Len(rows) - 1)), rows[Len(rows)])

\* As DueCards, leaving graduated cards out.
DueCardsNotGraduated(frame, date) ==
    LET Test(row) == IsDue(row, date) /\ row.card_status # "graduated"
    IN  SortValues(SelectSeq(frame, Test))

\* The frame get_due_cards returns for the (parsed) frame and the date.
DueCards(frame, date) ==
    LET Test(row) == IsDue(row, date)
    IN  SortValues(SelectSeq(frame, Test))

\* One call of get_due_cards(df, date); given = FALSE is date=None. The call
\* raises at line 135, before it assigns the column, when a cell does not parse.
GetDueCards(given, date) ==
    LET d == IF given THEN date ELSE today
    IN  /\ IF Parses(df)
           THEN /\ df' = Normalised(df)
                /\ due' = << [ok |-> TRUE, date |-> d, rows |-> DueCards(Normalised(df), d)] >>
           ELSE /\ df' = df
                /\ due' = << [ok |-> FALSE, date |-> d, rows |-> << >>] >>
        /\ UNCHANGED <<initial_interval, today, cards, last, session, calls, content,
                 exported, stats, documents, document_metadata, usage_data, clock, budget_status>>

-----------------------------------------------------------------------------
(* SRSScheduler.get_learning_statistics *)

\* len(rows[rows['card_status'] == status])
CountStatus(rows, status) ==
    Cardinality({i \in 1 .. Len(rows) : rows[i].card_status = status})

\* 'language' in df_srs.columns
HasColumn(frame, column) == frame # << >> /\ column \in DOMAIN frame[1]

\* df_srs[column].value_counts().to_dict()
ValueCounts(frame, column) ==
    IF HasColumn(frame, column)
    THEN [v \in {frame[i][column] : i \in 1 .. Len(frame)} |->
             Cardinality({i \in 1 .. Len(frame) : frame[i][column] = v})]
    ELSE << >>

RECURSIVE SumOf(_, _)
SumOf(frame, column) ==
    IF frame = << >> THEN 0 ELSE frame[1][column] + SumOf(Tail(frame), column)

\* df_srs[column].mean() if len(df_srs) > 0 else 0, as the fraction num / den
MeanOf(frame, column) ==
    IF Len(frame) > 0 THEN [num |-> SumOf(frame, column), den |-> Len(frame)]
    ELSE [num |-> 0, den |-> 1]

\* One call of get_learning_statistics(df): the status counts are taken first,
\* then get_due_cards(df) parses the column in place (or raises).
GetLearningStatistics ==
    /\ IF Parses(df)
       THEN /\ df' = Normalised(df)
            /\ stats' =
                 << [ ok              |-> TRUE,
                      total_cards     |-> Len(df),
                      new_cards       |-> CountStatus(df, "new"),
                      learning_cards  |-> CountStatus(df, "learning"),
                      review_cards    |-> CountStatus(df, "review"),
                      due_today       |-> Len(DueCards(Normalised(df), today)),
                      languages       |-> ValueCounts(df, "language"),
                      levels          |-> ValueCounts(df, "cefr_level"),
                      avg_ease_factor |-> MeanOf(df, "ease_factor"),
                      avg_interval    |-> MeanOf(df, "interval") ] >>
       ELSE /\ df' = df
            /\ stats' = << [ok |-> FALSE] >>
    /\ UNCHANGED <<initial_interval, today, cards, last, due, session, calls, content,
                 exported, documents, document_metadata, usage_data, clock, budget_status>>

-----------------------------------------------------------------------------
(* SRSScheduler.suggest_study_session *)

\* Times are in quarters of a minute: target_minutes = 1 is 4, and the
\* estimated_time_per_card of 0.5 minutes (line 238) is 2.
estimated_time_per_card == 2

\* Python's int() of the rational n / d: truncation toward zero.
IntOf(n, d) == IF n >= 0 THEN n \div d ELSE 0 - ((0 - n) \div d)

\* max_cards = int(target_minutes / estimated_time_per_card)
MaxCardsExclusive(target) == IntOf(target - 1, estimated_time_per_card)
MaxCardsFor(target) == IntOf(target, estimated_time_per_card)

\* DataFrame.head(n): the first n rows, and for a negative n all rows but the
\* last -n.
HeadRows(rows, n) ==
    IF n >= 0 THEN SubSeq(rows, 1, Min(n, Len(rows)))
    ELSE SubSeq(rows, 1, Max(Len(rows) + n, 0))


\* One call of suggest_study_session(df, target_minutes); it raises where
\* get_due_cards does. A behaviour makes one call on the frame it starts with.
SuggestStudySession(target) ==
    /\ session = << >>
    /\ IF Parses(df)
       THEN LET session_cards == HeadRows(DueCards(Normalised(df), today), MaxCardsFor(target))
            IN  /\ df' = Normalised(df)
                /\ session' =
                     << [ ok                |-> TRUE,
                          target            |-> target,
                          rows              |-> session_cards,
                          recommended_cards |-> Len(session_cards),
                          estimated_time    |-> Len(session_cards) * estimated_time_per_card,
                          card_breakdown    |->
                              [ new      |-> CountStatus(session_cards, "new"),
                                review   |-> CountStatus(session_cards, "review"),
                                learning |-> CountStatus(session_cards, "learning") ] ] >>
       ELSE /\ df' = df
            /\ session' = << [ok |-> FALSE, target |-> target] >>
    /\ UNCHANGED <<initial_interval, today, cards, last, due, calls, content,
                 exported, stats, documents, document_metadata, usage_data, clock, budget_status>>

-----------------------------------------------------------------------------
(* SRSScheduler.export_to_anki_format and ExportHelper.export_to_anki

   A string is the sequence of its pieces: a tab, a line feed and a space are
   pieces of their own, every other piece is a run of other characters. A
   cell that is NaN or whose column is missing is Missing. *)

TAB == "\t"
NL == "\n"
SP == " "
Missing == << "nan" >>

\* pd.notna(row[column]) for a column that exists
NotNa(value) == value # Missing

RECURSIVE Join(_, _)
\* sep.join(parts)
Join(parts, sep) ==
    IF parts = << >> THEN << >>
    ELSE IF Len(parts) = 1 THEN parts[1]
    ELSE parts[1] \o sep \o Join(Tail(parts), sep)

RECURSIVE ReplaceSpaces(_)
\* str(value).replace(' ', '_')
ReplaceSpaces(value) ==
    IF value = << >> THEN << >>
    ELSE << (IF value[1] = SP THEN "_" ELSE value[1]) >> \o ReplaceSpaces(Tail(value))

\* export_to_anki_format, lines 195-216: one card's line.
AnkiLine(row) ==
    LET front == row.text
        back0 == << "Language: " >> \o row.language \o << "<br>", "Level: " >> \o row.cefr_level
        back1 == IF NotNa(row.translation)
                 THEN back0 \o << "<br>", "Translation: " >> \o row.translation
                 ELSE back0
        back  == IF NotNa(row.context)
                 THEN back1 \o << "<br>", "Context: " >>
                            \o SubSeq(row.context, 1, Min(100, Len(row.context))) \o << "..." >>
                 ELSE back1
        tag_string == Join(<< row.language, row.cefr_level >>, << SP >>)
    IN  front \o << TAB >> \o back \o << TAB >> \o tag_string

\* export_to_anki with the default fields, lines 84-107: one card's line.
\* 'language'.title() is 'Language' and 'cefr_level'.title() is 'Cefr_Level'.
HelperAnkiLine(row) ==
    LET front == row.text
        back_parts == << << "Language: " >> \o row.language,
                         << "Cefr_Level: " >> \o row.cefr_level >>
                      \o (IF NotNa(row.translation)
                          THEN << << "Translation: " >> \o row.translation >>
                          ELSE << >>)
        back == Join(back_parts, << "<br>" >>)
        tag_string == Join(<< ReplaceSpaces(row.language), ReplaceSpaces(row.cefr_level) >>,
                           << SP >>)
    IN  front \o << TAB >> \o back \o << TAB >> \o tag_string

\* As WriteFile, had the file been opened with mode 'a'.
WriteFileAppending(previous, text) == previous \o text

\* open(path, 'w').write(text): the file holds text, whatever it held before.
WriteFile(previous, text) == text

\* The content of the output file before a call: what the last export left.
Previous == IF exported = << >> THEN << >> ELSE exported[Len(exported)].file

\* if max_cards: export_df = export_df.head(max_cards)
ExportDf(frame, max_cards) == IF max_cards # 0 THEN HeadRows(frame, max_cards) ELSE frame

\* One call of SRSScheduler.export_to_anki_format(df, output_file, max_cards);
\* max_cards = 0 stands for None as well (both are falsy at line 190).
ExportToAnkiFormat(max_cards) ==
    /\ Len(exported) < MaxExports
    /\ LET export_df == ExportDf(df, max_cards)
           anki_lines == [i \in 1 .. Len(export_df) |-> AnkiLine(export_df[i])]
       IN  exported' = Append(exported,
                              [ exporter  |-> "scheduler",
                                max_cards |-> max_cards,
                                rows      |-> export_df,
                                file      |-> WriteFile(Previous, Join(anki_lines, << NL >>)) ])
    /\ UNCHANGED <<initial_interval, today, cards, df, last, due, session, calls, content,
                 stats, documents, document_metadata, usage_data, clock, budget_status>>

\* One call of ExportHelper.export_to_anki(data, output_path) with the default fields.
ExportToAnki ==
    /\ Len(exported) < MaxExports
    /\ LET anki_cards == [i \in 1 .. Len(df) |-> HelperAnkiLine(df[i])]
       IN  exported' = Append(exported,
                              [ exporter  |-> "helper",
                                max_cards |-> 0,
                                rows      |-> df,
                                file      |-> WriteFile(Previous, Join(anki_cards, << NL >>)) ])
    /\ UNCHANGED <<initial_interval, today, cards, df, last, due, session, calls, content,
                 stats, documents, document_metadata, usage_data, clock, budget_status>>

-----------------------------------------------------------------------------
(* MultilingualRAGSystem.add_documents (src/src/rag_system.py) *)

\* Document(text, metadata): self.metadata = metadata or {}; {} is << >>.
Document(text, metadata) == [text |-> text, metadata |-> metadata]

RECURSIVE MetadataOfNonEmpty(_)
\* The metadata of the documents that have some.
MetadataOfNonEmpty(docs) ==
    IF docs = << >> THEN << >>
    ELSE (IF docs[1].metadata # << >> THEN << docs[1].metadata >> ELSE << >>)
            \o MetadataOfNonEmpty(Tail(docs))

\* As AddDocuments, tracking the metadata of a document only if it is not empty.
AddDocumentsWithMetadata(docs) ==
    /\ Len(documents) + Len(docs) <= MaxDocuments
    /\ documents' = documents \o docs
    /\ document_metadata' = document_metadata \o MetadataOfNonEmpty(docs)
    /\ UNCHANGED <<initial_interval, today, cards, df, last, due, session, calls, content,
                 exported, stats, usage_data, clock, budget_status>>

\* One call of add_documents(documents) with a list of Document objects:
\* extend at line 86, one append per document at lines 89-90.
AddDocuments(docs) ==
    /\ Len(documents) + Len(docs) <= MaxDocuments
    /\ documents' = documents \o docs
    /\ document_metadata' = document_metadata \o [i \in 1 .. Len(docs) |-> docs[i].metadata]
    /\ UNCHANGED <<initial_interval, today, cards, df, last, due, session, calls, content,
                 exported, stats, usage_data, clock, budget_status>>

-----------------------------------------------------------------------------
(* TokenTracker (src/src/cost_tracker.py): the budget check

   Costs are integers in units of 10^-8 USD. A key of daily_usage is the pair
   <<month, day>> of its 'YYYY-MM-DD' string, all in one year; alert
   thresholds are kept in tenths of a unit, so that 0.8 and 0.9 of a limit
   are exact. *)

\* pricing['text-embedding-3-small']['input'] = 0.00002 USD per 1K tokens
EmbeddingPrice == 2

\* The days of the months of a common year, as datetime counts them.
DaysInMonth == << 31, 28, 31, 30, 31, 30, 31, 31, 30, 31, 30, 31 >>

RECURSIVE SumOver(_, _)
\* The sum of daily_usage[k][field] over the keys
SumOver(keys, field) ==
    IF keys = {} THEN 0
    ELSE LET k == CHOOSE x \in keys : TRUE
         IN  usage_data.daily_usage[k][field] + SumOver(keys \ {k}, field)

\* One call of track_embedding_usage(input_tokens): the entry of today's date
\* is created if need be (lines 112-114) and added to (lines 116-118).
TrackEmbeddingUsage(input_tokens) ==
    /\ SumOver(DOMAIN usage_data.daily_usage, "requests") < MaxRequests
    /\ LET cost == input_tokens * EmbeddingPrice
           key == << clock.month, clock.day >>
           old == IF key \in DOMAIN usage_data.daily_usage
                  THEN usage_data.daily_usage[key]
                  ELSE [tokens |-> 0, cost |-> 0, requests |-> 0]
       IN  usage_data' =
              [usage_data EXCEPT !.daily_usage =
                  [k \in DOMAIN usage_data.daily_usage \cup {key} |->
                      IF k = key
                      THEN [ tokens   |-> old.tokens + input_tokens,
                             cost     |-> old.cost + cost,
                             requests |-> old.requests + 1 ]
                      ELSE usage_data.daily_usage[k]]]
    /\ UNCHANGED <<initial_interval, today, cards, df, last, due, session, calls, content,
                 exported, stats, documents, document_metadata, clock, budget_status>>

\* set_budget_limit(monthly_limit): the limit and its two thresholds, in tenths.
SetBudgetLimit(monthly_limit) ==
    /\ usage_data' = [usage_data EXCEPT
                         !.budget_limit = << monthly_limit >>,
                         !.alert_thresholds = << [ warning  |-> monthly_limit * 8,
                                                   critical |-> monthly_limit * 9 ] >>]
    /\ UNCHANGED <<initial_interval, today, cards, df, last, due, session, calls, content,
                 exported, stats, documents, document_metadata, clock, budget_status>>

\* Lines 238-242.
AlertLevel(monthly_cost, thresholds) ==
    IF monthly_cost * 10 >= thresholds.critical THEN "critical"
    ELSE IF monthly_cost * 10 >= thresholds.warning THEN "warning"
    ELSE "normal"

\* One call of check_budget_status(). The division of line 235 raises
\* ZeroDivisionError for a limit of 0; datetime.replace(month=13) at line 251
\* raises ValueError in December.
CheckBudgetStatus ==
    /\ budget_status' =
         IF usage_data.budget_limit = << >> THEN << [status |-> "no_budget_set"] >>
         ELSE LET monthly_cost ==
                      SumOver({k \in DOMAIN usage_data.daily_usage : k[1] = clock.month}, "cost")
                  budget_limit == usage_data.budget_limit[1]
              IN  IF budget_limit = 0
                  THEN << [status |-> "raised", error |-> "ZeroDivisionError"] >>
                  ELSE IF clock.month + 1 > 12
                  THEN << [status |-> "raised", error |-> "ValueError"] >>
                  ELSE << [ status           |-> "active",
                            monthly_budget   |-> budget_limit,
                            monthly_spent    |-> monthly_cost,
                            remaining_budget |-> budget_limit - monthly_cost,
                            usage_percentage |-> [num |-> monthly_cost * 100, den |-> budget_limit],
                            alert_level      |-> AlertLevel(monthly_cost,
                                                            usage_data.alert_thresholds[1]),
                            days_remaining   |-> DaysInMonth[clock.month] - clock.day ] >>
    /\ UNCHANGED <<initial_interval, today, cards, df, last, due, session, calls, content,
                 exported, stats, documents, document_metadata, usage_data, clock>>

\* The tracker's calendar moves to the next day of the month.
ClockDay ==
    /\ clock.day < MaxMonthDay
    /\ clock' = [clock EXCEPT !.day = clock.day + 1]
    /\ UNCHANGED <<initial_interval, today, cards, df, last, due, session, calls, content,
                 exported, stats, documents, document_metadata, usage_data, budget_status>>

\* The tracker's calendar moves to the first day of the next month of the year.
ClockMonth ==
    /\ clock.month < 12
    /\ clock' = [month |-> clock.month + 1, day |-> 1]
    /\ UNCHANGED <<initial_interval, today, cards, df, last, due, session, calls, content,
                 exported, stats, documents, document_metadata, usage_data, budget_status>>

-----------------------------------------------------------------------------
(* Reviews by a scheduler built with the default arguments, whose client may
   attach cards *)

Init ==
    /\ initial_interval = 1
    /\ today = 0
    /\ cards = << >>
    /\ df = << >>
    /\ last = << >>
    /\ due = << >>
    /\ session = << >>
    /\ calls = << >>
    /\ content = << >>
    /\ NoReports
    /\ NewRagSystem
    /\ NewTokenTracker

Next ==
    \/ \E c \in CardIds, s \in PriorStates : SetCards(c, s)
    \/ \E c \in CardIds, q \in Qualities, rt \in ResponseTimes, tick \in {0, 1} :
          UpdateSrs(c, q, rt, tick)
    \/ Tick

Spec == Init /\ [][Next]_vars

-----------------------------------------------------------------------------
(* The card store as the class builds it: any constructor argument,
   initialize_srs_metadata, then reviews; self.cards is never attached *)

\* The rows of content a caller passes to initialize_srs_metadata.
Contents ==
    { [text |-> "hola", language |-> "es", cefr_level |-> "A1"],
      [text |-> "bonjour", language |-> "fr", cefr_level |-> "B2"],
      [text |-> "hallo", language |-> "de", cefr_level |-> "A1"] }

\* The content frame of n rows that all hold the same item.
Uniform(n, item) == [i \in 1 .. n |-> item]

InitStore ==
    /\ initial_interval \in InitialIntervals
    /\ today = 0
    /\ cards = << >>
    /\ df = << >>
    /\ last = << >>
    /\ due = << >>
    /\ session = << >>
    /\ calls = << >>
    /\ content = << >>
    /\ NoReports
    /\ NewRagSystem
    /\ NewTokenTracker

NextStore ==
    \/ \E n \in 1 .. MaxCards :
          InitializeSrsMetadata(Uniform(n, [text |-> "hola", language |-> "es", cefr_level |-> "A1"]))
    \/ \E c \in CardIds, q \in Qualities, rt \in ResponseTimes, tick \in {0, 1} :
          UpdateSrs(c, q, rt, tick)
    \/ Tick

SpecStore == InitStore /\ [][NextStore]_vars

-----------------------------------------------------------------------------
(* Initialisation of any content frame under any configuration *)

NextContent ==
    \/ \E n \in 1 .. MaxCards : \E items \in [1 .. n -> Contents] :
          InitializeSrsMetadata(items)
    \/ Tick

SpecContent == InitStore /\ [][NextContent]_vars

-----------------------------------------------------------------------------
(* get_due_cards on any frame of stored cards a caller can pass *)

\* The ease factor and status a stored row carries.
Profiles ==
    { [ease_factor |-> 250, card_status |-> "new"],
      [ease_factor |-> 230, card_status |-> "learning"],
      [ease_factor |-> 260, card_status |-> "review"],
      [ease_factor |-> 250, card_status |-> "graduated"] }

Cells == {DateCell(d) : d \in Days} \cup {StrCell(d) : d \in Days} \cup {BadCell}

StoredRow(i, cell, profile) ==
    [ card_id          |-> i,
      interval         |-> 1,
      ease_factor      |-> profile.ease_factor,
      repetitions      |-> 0,
      last_review      |-> NoCell,
      next_review      |-> cell,
      quality_history  |-> << >>,
      total_reviews    |-> 0,
      total_time_spent |-> 0,
      avg_quality      |-> 0,
      card_status      |-> profile.card_status ]

\* The frame of n stored rows with the given cells and profiles.
Frame(n, cell, profile) == [i \in 1 .. n |-> StoredRow(i - 1, cell[i], profile[i])]

InitDue ==
    /\ initial_interval = 1
    /\ today = 1
    /\ cards = << >>
    /\ \E n \in 0 .. MaxCards :
          \E cell \in [1 .. n -> Cells], profile \in [1 .. n -> Profiles] :
             df = Frame(n, cell, profile)
    /\ last = << >>
    /\ due = << >>
    /\ session = << >>
    /\ calls = << >>
    /\ content = << >>
    /\ NoReports
    /\ NewRagSystem
    /\ NewTokenTracker

NextDue == \E given \in BOOLEAN, d \in Days : GetDueCards(given, d)

SpecDue == InitDue /\ [][NextDue]_vars

-----------------------------------------------------------------------------
(* suggest_study_session on any frame of stored cards with well-formed dates *)

\* The frame of n stored rows with the given review days and profiles.
DatedFrame(n, day, profile) ==
    [i \in 1 .. n |-> StoredRow(i - 1, DateCell(day[i]), profile[i])]

\* The days a stored card can be due on: before today, today, after today.
ReviewDays == {0, 1, 2}

\* target_minutes, in quarters of a minute, negative budgets included
Targets == (0 - MaxTarget) .. MaxTarget

InitSession ==
    /\ initial_interval = 1
    /\ today = 1
    /\ cards = << >>
    /\ \E n \in 0 .. MaxSessionCards :
          \E day \in [1 .. n -> ReviewDays], profile \in [1 .. n -> Profiles] :
             df = DatedFrame(n, day, profile)
    /\ last = << >>
    /\ due = << >>
    /\ session = << >>
    /\ calls = << >>
    /\ content = << >>
    /\ NoReports
    /\ NewRagSystem
    /\ NewTokenTracker

NextSession == \E target \in Targets : SuggestStudySession(target)

SpecSession == InitSession /\ [][NextSession]_vars

-----------------------------------------------------------------------------
(* Concurrent callers. The class takes no lock, so two update_srs calls and a
   get_due_cards call run by different threads interleave statement by
   statement. A reviewer's call is at "lookup" before lines 81-105, at
   "clock1" before line 108, at "clock2" before lines 110-118; the scanner's
   call is at "parse" before line 135 and at "filter" before lines 137-142. *)

Reviewers == {"r1", "r2"}
Scanner == "scan"

\* a failing grade and two passing ones
ConcQualities == {1, 4, 5}

\* update_srs is entered: the quality is clamped (line 78).
BeginReview(t, card_id, quality) ==
    /\ t \notin DOMAIN calls
    /\ calls' = [u \in DOMAIN calls \cup {t} |->
                    IF u = t
                    THEN [ pc |-> "lookup", card_id |-> card_id, quality |-> Clamp(quality),
                           interval |-> 0, repetitions |-> 0, ease_factor |-> 0,
                           next_review |-> 0, last_review |-> 0 ]
                    ELSE calls[u]]
    /\ UNCHANGED <<initial_interval, today, cards, df, last, due, session, content,
                 exported, stats, documents, document_metadata, usage_data, clock, budget_status>>

\* As Lookup, but storing the new repetitions in the card's row on the way.
LookupStoringRepetitions(t) ==
    /\ t \in DOMAIN calls
    /\ calls[t].pc = "lookup"
    /\ LET known == HasCard(calls[t].card_id)
           card == IF known THEN cards[calls[t].card_id]
                   ELSE [interval |-> 0, ease_factor |-> 0, repetitions |-> 0]
           p == UpdateParams(known, card, calls[t].quality)
       IN  /\ calls' = [calls EXCEPT ![t] =
                          [@ EXCEPT !.pc = "clock1", !.interval = p.interval,
                                    !.repetitions = p.repetitions,
                                    !.ease_factor = p.ease_factor]]
           /\ df' = [i \in 1 .. Len(df) |->
                       IF df[i].card_id = calls[t].card_id
                       THEN [df[i] EXCEPT !.repetitions = p.repetitions]
                       ELSE df[i]]
    /\ UNCHANGED <<initial_interval, today, cards, last, due, session, content,
                 exported, stats, documents, document_metadata, usage_data, clock, budget_status>>

\* Lines 81-105: the card is looked up and the new parameters are computed.
Lookup(t) ==
    /\ t \in DOMAIN calls
    /\ calls[t].pc = "lookup"
    /\ LET known == HasCard(calls[t].card_id)
           card == IF known THEN cards[calls[t].card_id]
                   ELSE [interval |-> 0, ease_factor |-> 0, repetitions |-> 0]
           p == UpdateParams(known, card, calls[t].quality)
       IN  calls' = [calls EXCEPT ![t] =
                       [@ EXCEPT !.pc = "clock1", !.interval = p.interval,
                                 !.repetitions = p.repetitions,
                                 !.ease_factor = p.ease_factor]]
    /\ UNCHANGED <<initial_interval, today, cards, df, last, due, session, content,
                 exported, stats, documents, document_metadata, usage_data, clock, budget_status>>

\* Line 108: next_review from the first reading of the clock.
ReadClock(t) ==
    /\ t \in DOMAIN calls
    /\ calls[t].pc = "clock1"
    /\ calls' = [calls EXCEPT ![t] =
                    [@ EXCEPT !.pc = "clock2", !.next_review = today + calls[t].interval]]
    /\ UNCHANGED <<initial_interval, today, cards, df, last, due, session, content,
                 exported, stats, documents, document_metadata, usage_data, clock, budget_status>>

\* Lines 110-118: last_review from the second reading; the dict is returned.
ReturnResult(t) ==
    /\ t \in DOMAIN calls
    /\ calls[t].pc = "clock2"
    /\ calls' = [calls EXCEPT ![t] = [@ EXCEPT !.pc = "done", !.last_review = today]]
    /\ UNCHANGED <<initial_interval, today, cards, df, last, due, session, content,
                 exported, stats, documents, document_metadata, usage_data, clock, budget_status>>

\* get_due_cards is entered with its date.
BeginScan(date) ==
    /\ Scanner \notin DOMAIN calls
    /\ calls' = [u \in DOMAIN calls \cup {Scanner} |->
                    IF u = Scanner THEN [pc |-> "parse", date |-> date, rows |-> << >>]
                    ELSE calls[u]]
    /\ UNCHANGED <<initial_interval, today, cards, df, last, due, session, content,
                 exported, stats, documents, document_metadata, usage_data, clock, budget_status>>

\* Line 135: the next_review column is parsed and assigned.
ScanParse ==
    /\ Scanner \in DOMAIN calls
    /\ calls[Scanner].pc = "parse"
    /\ Parses(df)
    /\ df' = Normalised(df)
    /\ calls' = [calls EXCEPT ![Scanner] = [@ EXCEPT !.pc = "filter"]]
    /\ UNCHANGED <<initial_interval, today, cards, last, due, session, content,
                 exported, stats, documents, document_metadata, usage_data, clock, budget_status>>

\* Lines 137-142: the due rows are copied out and sorted.
ScanFilter ==
    /\ Scanner \in DOMAIN calls
    /\ calls[Scanner].pc = "filter"
    /\ calls' = [calls EXCEPT ![Scanner] =
                    [@ EXCEPT !.pc = "done", !.rows = DueCards(df, calls[Scanner].date)]]
    /\ UNCHANGED <<initial_interval, today, cards, df, last, due, session, content,
                 exported, stats, documents, document_metadata, usage_data, clock, budget_status>>

\* The store holds MaxCards new cards; the client may have attached one card.
InitConc ==
    /\ initial_interval = 1
    /\ today = 0
    /\ \/ cards = << >>
       \/ \E c \in CardIds, s \in PriorStates : cards = [x \in {c} |-> s]
    /\ df = [i \in 1 .. MaxCards |-> NewRow(i - 1)]
    /\ last = << >>
    /\ due = << >>
    /\ session = << >>
    /\ calls = << >>
    /\ content = << >>
    /\ NoReports
    /\ NewRagSystem
    /\ NewTokenTracker

NextConc ==
    \/ \E t \in Reviewers, c \in CardIds, q \in ConcQualities : BeginReview(t, c, q)
    \/ \E t \in Reviewers : Lookup(t)
    \/ \E t \in Reviewers : ReadClock(t)
    \/ \E t \in Reviewers : ReturnResult(t)
    \/ \E d \in Days : BeginScan(d)
    \/ ScanParse
    \/ ScanFilter

SpecConc == InitConc /\ [][NextConc]_vars

-----------------------------------------------------------------------------
(* Reviews of cards loaded from an earlier session: the frame holds rows whose
   card_status column names any of the four states of line 61's comment. *)

InitLoaded ==
    /\ initial_interval = 1
    /\ today = 0
    /\ cards = << >>
    /\ \E n \in 1 .. MaxCards :
          \E profile \in [1 .. n -> Profiles] :
             df = DatedFrame(n, [i \in 1 .. n |-> 0], profile)
    /\ last = << >>
    /\ due = << >>
    /\ session = << >>
    /\ calls = << >>
    /\ content = << >>
    /\ NoReports
    /\ NewRagSystem
    /\ NewTokenTracker

NextLoaded ==
    \/ \E c \in CardIds, q \in Qualities, rt \in ResponseTimes, tick \in {0, 1} :
          UpdateSrs(c, q, rt, tick)
    \/ Tick

SpecLoaded == InitLoaded /\ [][NextLoaded]_vars

-----------------------------------------------------------------------------
(* get_learning_statistics on any frame of stored cards a caller can pass *)

NextStats == GetLearningStatistics

SpecStats == InitDue /\ [][NextStats]_vars

-----------------------------------------------------------------------------
(* Exports of any frame of cards by the two Anki exporters *)

\* A plain card; one with a translation; one with a context; cards whose text
\* holds a tab or a line feed; a card whose language holds a space.
ExportItems ==
    { [text |-> << "hola" >>, language |-> << "es" >>, cefr_level |-> << "A1" >>,
       translation |-> Missing, context |-> Missing],
      [text |-> << "chat" >>, language |-> << "fr" >>, cefr_level |-> << "B2" >>,
       translation |-> << "cat" >>, context |-> Missing],
      [text |-> << "Haus" >>, language |-> << "de" >>, cefr_level |-> << "A2" >>,
       translation |-> Missing, context |-> << "das", SP, "Haus" >>],
      [text |-> << "uno", TAB, "dos" >>, language |-> << "es" >>, cefr_level |-> << "A1" >>,
       translation |-> Missing, context |-> Missing],
      [text |-> << "un", NL, "deux" >>, language |-> << "fr" >>, cefr_level |-> << "A1" >>,
       translation |-> << "one", SP, "two" >>, context |-> Missing],
      [text |-> << "ola" >>, language |-> << "pt", SP, "BR" >>, cefr_level |-> << "C1" >>,
       translation |-> Missing, context |-> Missing] }

\* max_cards: None or 0, a positive count, a negative count
MaxCardsArgs == {0, 1, 0 - 1}

InitExport ==
    /\ initial_interval = 1
    /\ today = 0
    /\ cards = << >>
    /\ \E n \in 0 .. MaxExportCards : df \in [1 .. n -> ExportItems]
    /\ last = << >>
    /\ due = << >>
    /\ session = << >>
    /\ calls = << >>
    /\ content = << >>
    /\ NoReports
    /\ NewRagSystem
    /\ NewTokenTracker

NextExport ==
    \/ \E max_cards \in MaxCardsArgs : ExportToAnkiFormat(max_cards)
    \/ ExportToAnki

SpecExport == InitExport /\ [][NextExport]_vars

-----------------------------------------------------------------------------
(* Any sequence of add_documents calls on a new MultilingualRAGSystem *)

\* The two documents of test_add_documents and one built without metadata.
Documents ==
    { Document("Hello world", [language |-> "English", level |-> "A1"]),
      Document("Bonjour monde", [language |-> "French", level |-> "A1"]),
      Document("Hola", << >>) }

InitRag ==
    /\ initial_interval = 1
    /\ today = 0
    /\ cards = << >>
    /\ df = << >>
    /\ last = << >>
    /\ due = << >>
    /\ session = << >>
    /\ calls = << >>
    /\ content = << >>
    /\ NoReports
    /\ NewRagSystem
    /\ NewTokenTracker

NextRag == \E n \in 0 .. MaxBatch : \E docs \in [1 .. n -> Documents] : AddDocuments(docs)

SpecRag == InitRag /\ [][NextRag]_vars

-----------------------------------------------------------------------------
(* Stored cards of any status while the calendar advances: the date moves on
   as long as it can, the due list for today is asked for again and again, and
   the client reviews the card at the head of the list it got *)

InitLive ==
    /\ initial_interval = 1
    /\ today = 0
    /\ cards = << >>
    /\ \E n \in 1 .. MaxLiveCards :
          \E day \in [1 .. n -> Days], profile \in [1 .. n -> Profiles] :
             df = DatedFrame(n, day, profile)
    /\ last = << >>
    /\ due = << >>
    /\ session = << >>
    /\ calls = << >>
    /\ content = << >>
    /\ NoReports
    /\ NewRagSystem
    /\ NewTokenTracker

NextLive ==
    \/ Tick
    \/ GetDueCards(FALSE, 0)
    \/ /\ due # << >>
       /\ due[1].rows # << >>
       /\ UpdateSrs(due[1].rows[1].card_id, 4, 0, 0)

SpecLive ==
    InitLive /\ [][NextLive]_vars /\ WF_vars(Tick) /\ WF_vars(GetDueCards(FALSE, 0))

-----------------------------------------------------------------------------
(* A token tracker through one year: usage is recorded, a budget is set and
   the budget status is checked *)

\* input_tokens of one request: 1 and 4 tokens cost 2 and 8 units
TokenInputs == {1, 4}

\* monthly_limit: no money at all, and 10 units (8 is 80% of it, 9 is 90%)
Limits == {0, 10}

InitTracker ==
    /\ initial_interval = 1
    /\ today = 0
    /\ cards = << >>
    /\ df = << >>
    /\ last = << >>
    /\ due = << >>
    /\ session = << >>
    /\ calls = << >>
    /\ content = << >>
    /\ NoReports
    /\ NewRagSystem
    /\ NewTokenTracker

NextTracker ==
    \/ \E t \in TokenInputs : TrackEmbeddingUsage(t)
    \/ \E l \in Limits : SetBudgetLimit(l)
    \/ CheckBudgetStatus
    \/ ClockDay
    \/ ClockMonth

SpecTracker == InitTracker /\ [][NextTracker]_vars

-----------------------------------------------------------------------------
(* Properties *)

\* A step that is a call of update_srs whose record differs from the one
\* before it, following an earlier call for the same card.
NextReviewOfSameCard ==
    /\ last # << >>
    /\ last' # << >>
    /\ last' # last
    /\ last'[1].card_id = last[1].card_id

\* The row of the frame that holds card_id.
HasRow(frame, card_id) == \E i \in 1 .. Len(frame) : frame[i].card_id = card_id
RowOf(frame, card_id) == frame[CHOOSE i \in 1 .. Len(frame) : frame[i].card_id = card_id]

\* C1: a successful review returns the card's prior repetitions + 1. The prior
\* repetitions of a card that has just been reviewed are those its previous
\* review returned.
C1_RepetitionsIncrement ==
    [][ (NextReviewOfSameCard /\ HasRow(df, last[1].card_id) /\ last'[1].result.quality >= 3)
          => last'[1].result.repetitions = last[1].result.repetitions + 1 ]_vars

\* C2: a fresh card (interval 1, ease 2.5, repetitions 0) reviewed with
\* quality 4 and then with quality 5 gets interval 6 and repetitions 2 from the
\* second review.
C2_SecondReviewSeesFirst ==
    [][ ( /\ NextReviewOfSameCard
          /\ HasRow(df, last[1].card_id)
          /\ RowOf(df, last[1].card_id).interval = 1
          /\ RowOf(df, last[1].card_id).ease_factor = 250
          /\ RowOf(df, last[1].card_id).total_reviews = 0
          /\ last[1].quality = 4
          /\ last[1].result.repetitions = 1
          /\ last[1].result.interval = 1
          /\ last'[1].quality = 5 )
          => (last'[1].result.interval = 6 /\ last'[1].result.repetitions = 2) ]_vars

\* C3: a successful review returns interval 1 when the card's prior
\* repetitions are 0, 6 when they are 1, and round(prior interval * prior ease
\* factor) otherwise; the prior state of a card that has just been reviewed is
\* what its previous review returned.
C3_IntervalFromPriorState ==
    [][ (NextReviewOfSameCard /\ HasRow(df, last[1].card_id) /\ last'[1].result.quality >= 3)
          => last'[1].result.interval =
                (IF last[1].result.repetitions = 0 THEN 1
                 ELSE IF last[1].result.repetitions = 1 THEN 6
                 ELSE Round(last[1].result.interval * last[1].result.ease_factor, 100)) ]_vars

\* C4: a failed review (quality below 3 once clamped) returns interval 1,
\* repetitions 0 and ease factor 2.3, whatever the card held before.
C4_FailureResets ==
    (last # << >> /\ last[1].quality < 3)
        => /\ last[1].result.interval = 1
           /\ last[1].result.repetitions = 0
           /\ last[1].result.ease_factor = 230

\* C4 witness: the card with repetitions 4, interval 10, ease 2.0 failed with quality 1.
C4_Witness ==
    /\ last # << >>
    /\ last[1].quality = 1
    /\ HasCard(last[1].card_id)
    /\ cards[last[1].card_id] = [interval |-> 10, ease_factor |-> 200, repetitions |-> 4]
    /\ last[1].result.repetitions = 0
    /\ last[1].result.ease_factor = 230

\* C5: every ease factor the scheduler produces, for a new card and in the
\* result of any review, is at least 1.3.
C5_EaseFloor ==
    /\ NewRow(0).ease_factor >= 130
    /\ \A i \in 1 .. Len(df) : df[i].ease_factor >= 130
    /\ last # << >> => last[1].result.ease_factor >= 130

\* C5 witness: a card whose ease factor was at the floor has been reviewed
\* with the weakest passing grade.
C5_Witness ==
    /\ last # << >>
    /\ last[1].quality = 3
    /\ HasCard(last[1].card_id)
    /\ cards[last[1].card_id].ease_factor = 130
    /\ last[1].result.repetitions = 4
    /\ last[1].result.ease_factor = 236

\* C6: every card's interval is at least 1, after initialization under any
\* constructor argument and after any review.
C6_IntervalPositive ==
    /\ \A i \in 1 .. Len(df) : df[i].interval >= 1
    /\ last # << >> => last[1].result.interval >= 1

\* C7: update_srs with a quality above 5 returns what it returns for 5, and
\* with a quality below 0 what it returns for 0.
C7_QualityClamped ==
    [][ (last' # << >> /\ last' # last)
          => /\ last'[1].quality > 5 =>
                   last'[1].result = UpdateSrsResult(last'[1].card_id, 5,
                                        last'[1].response_time, today, today')
             /\ last'[1].quality < 0 =>
                   last'[1].result = UpdateSrsResult(last'[1].card_id, 0,
                                        last'[1].response_time, today, today') ]_vars

\* C7 witness: a review with quality 7 has returned the result of quality 5.
C7_Witness ==
    /\ last # << >>
    /\ last[1].quality = 7
    /\ last[1].result.quality = 5
    /\ last[1].result.ease_factor = 260
    /\ last[1].result.repetitions = 3

\* C8: after every review next_review = last_review + interval days.
C8_NextReviewFromLastReview ==
    last # << >> =>
        last[1].result.next_review = last[1].result.last_review + last[1].result.interval

\* C9: a review of a stored card appends the clamped quality to its
\* quality_history, adds 1 to total_reviews and response_time to total_time_spent.
C9_ReviewRecorded ==
    [][ (last' # << >> /\ last' # last /\ HasRow(df, last'[1].card_id))
          => LET before == RowOf(df, last'[1].card_id)
                 after == RowOf(df', last'[1].card_id)
             IN  /\ after.quality_history =
                        Append(before.quality_history, last'[1].result.quality)
                 /\ after.total_reviews = before.total_reviews + 1
                 /\ after.total_time_spent =
                        before.total_time_spent + last'[1].response_time ]_vars

\* C10: when get_due_cards returns, it returns exactly the rows of the frame
\* whose next_review is on or before the date, each once, whatever their status.
C10_DueExactly ==
    (due # << >> /\ due[1].ok)
        => /\ {due[1].rows[i] : i \in 1 .. Len(due[1].rows)}
                = {df[i] : i \in {j \in 1 .. Len(df) : df[j].next_review.day <= due[1].date}}
           /\ Len(due[1].rows)
                = Cardinality({j \in 1 .. Len(df) : df[j].next_review.day <= due[1].date})

\* C10 witness: a graduated card due on the very date and a card stored with a
\* string date are returned, and a card due later is left out.
C10_Witness ==
    /\ due # << >>
    /\ due[1].ok
    /\ Len(df) = 2
    /\ Len(due[1].rows) = 1
    /\ due[1].rows[1].next_review.day = due[1].date
    /\ due[1].rows[1].card_status = "graduated"
    /\ \E i \in 1 .. Len(df) : df[i].next_review.day > due[1].date


\* C11: the rows get_due_cards returns are in ascending order of next_review,
\* and rows with the same next_review in ascending order of ease_factor.
C11_DueSorted ==
    (due # << >> /\ due[1].ok)
        => \A i, j \in 1 .. Len(due[1].rows) :
              i < j =>
                \/ due[1].rows[i].next_review.day < due[1].rows[j].next_review.day
                \/ /\ due[1].rows[i].next_review.day = due[1].rows[j].next_review.day
                   /\ due[1].rows[i].ease_factor <= due[1].rows[j].ease_factor

\* C11 witness: two cards due on the same day, stored harder card last, are
\* returned harder card first.
C11_Witness ==
    /\ due # << >>
    /\ due[1].ok
    /\ Len(df) = 2
    /\ Len(due[1].rows) = 2
    /\ df[1].next_review.day = df[2].next_review.day
    /\ df[1].ease_factor > df[2].ease_factor
    /\ due[1].rows[1] = df[2]
    /\ due[1].rows[2] = df[1]


\* The due list a session is cut from: the frame's rows due today, sorted.
\* (A session call leaves the frame parsed, and no step of SpecSession moves
\* the clock.)
SessionDue == DueCards(df, today)

\* C12: for a budget that is not negative, the session is the first
\* min(|due|, floor(target / per-card estimate)) rows of the sorted due list,
\* in the same order; a card that fits the budget exactly is included.
C12_SessionIsPrefix ==
    (session # << >> /\ session[1].ok /\ session[1].target >= 0)
        => /\ session[1].rows =
                 SubSeq(SessionDue, 1,
                        Min(Len(SessionDue), session[1].target \div estimated_time_per_card))
           /\ session[1].recommended_cards = Len(session[1].rows)

\* C12 witness: three due cards, one minute (4 quarters), 30 s per card: two selected.
C12_Witness ==
    /\ session # << >>
    /\ session[1].ok
    /\ session[1].target = 4
    /\ Len(SessionDue) = 3
    /\ session[1].recommended_cards = 2
    /\ session[1].rows = SubSeq(SessionDue, 1, 2)

\* C13: a target with no capacity for one card (zero, below one card's
\* estimate, or negative) gives an empty selection.
C13_NoCapacityEmpty ==
    (session # << >> /\ session[1].ok /\ session[1].target < estimated_time_per_card)
        => /\ session[1].recommended_cards = 0
           /\ session[1].estimated_time = 0


\* A step that is a call of update_srs (one whose record differs from the
\* record of the call before it).
ReviewStep == last' # << >> /\ last' # last

C15_OtherCardsUntouched ==
    [][ ReviewStep
          => /\ Len(df') = Len(df)
             /\ \A i \in 1 .. Len(df) :
                   df[i].card_id # last'[1].card_id => df'[i] = df[i]
             /\ DOMAIN cards' = DOMAIN cards
             /\ \A c \in DOMAIN cards : c # last'[1].card_id => cards'[c] = cards[c] ]_vars

\* C15 witness: card 0 of a two-card store has been reviewed, and card 1 is as
\* initialization left it.
C15_Witness ==
    /\ Len(df) = 2
    /\ last # << >>
    /\ last[1].card_id = 0
    /\ last[1].result.repetitions = 1
    /\ df[2].card_id = 1
    /\ df[2].repetitions = 0
    /\ df[2].total_reviews = 0
    /\ df[2].interval = initial_interval


\* The result b is what update_srs yields for b's quality from the state that
\* the result a describes.
SerialAfter(a, b) ==
    LET p == UpdateParams(TRUE, [interval |-> a.interval, ease_factor |-> a.ease_factor,
                                 repetitions |-> a.repetitions], b.quality)
    IN  /\ b.interval = p.interval
        /\ b.repetitions = p.repetitions
        /\ b.ease_factor = p.ease_factor

\* C16: when two concurrent reviews of the same card id have both returned,
\* the state they leave is the one produced by applying them one after the
\* other in some order: one of the two results follows from the other.
C16_NoLostUpdate ==
    \A t \in Reviewers, u \in Reviewers :
        ( /\ t # u
          /\ t \in DOMAIN calls
          /\ u \in DOMAIN calls
          /\ calls[t].pc = "done"
          /\ calls[u].pc = "done"
          /\ calls[t].card_id = calls[u].card_id )
        => (SerialAfter(calls[t], calls[u]) \/ SerialAfter(calls[u], calls[t]))

\* The five scheduling fields of a stored row, and of a returned result in the
\* form a row would hold them.
CardFields(row) ==
    [ interval |-> row.interval, ease_factor |-> row.ease_factor,
      repetitions |-> row.repetitions, last_review |-> row.last_review,
      next_review |-> row.next_review ]

ResultFields(c) ==
    [ interval |-> c.interval, ease_factor |-> c.ease_factor,
      repetitions |-> c.repetitions, last_review |-> DateCell(c.last_review),
      next_review |-> DateCell(c.next_review) ]

WholeCard(row) ==
    \/ CardFields(row) = CardFields(NewRow(row.card_id))
    \/ \E t \in Reviewers :
          /\ t \in DOMAIN calls
          /\ calls[t].pc = "done"
          /\ calls[t].card_id = row.card_id
          /\ CardFields(row) = ResultFields(calls[t])

\* C17: a due-card scan running concurrently with reviews never observes a
\* partially updated card: every row of the store, and every row the scan
\* copied out, has all of its pre-review fields or all of the fields of a
\* finished review of that card.
C17_ScanSeesWholeCards ==
    /\ \A i \in 1 .. Len(df) : WholeCard(df[i])
    /\ Scanner \in DOMAIN calls
          => \A i \in 1 .. Len(calls[Scanner].rows) : WholeCard(calls[Scanner].rows[i])

C17_Witness ==
    /\ Scanner \in DOMAIN calls
    /\ calls[Scanner].pc = "done"
    /\ calls[Scanner].rows # << >>
    /\ \E t \in Reviewers :
          /\ t \in DOMAIN calls
          /\ calls[t].pc = "clock2"
          /\ calls[t].quality >= 3
          /\ calls[t].card_id = calls[Scanner].rows[1].card_id


\* C18: after every review of a stored card its card_status is the function of
\* the repetitions and interval the review produced: graduated once the
\* interval exceeds 21 days, else review for 3 or more consecutive successes,
\* else learning for 1 or 2; a reviewed card is never new.
C18_StatusFromCounters ==
    [][ (ReviewStep /\ HasRow(df', last'[1].card_id))
          => LET status == RowOf(df', last'[1].card_id).card_status
                 res == last'[1].result
             IN  /\ status # "new"
                 /\ res.interval > 21 => status = "graduated"
                 /\ (res.interval <= 21 /\ res.repetitions >= 3) => status = "review"
                 /\ (res.interval <= 21 /\ res.repetitions \in {1, 2})
                       => status = "learning" ]_vars

\* C19: a failed review (quality < 3) of a card whose status is review or
\* graduated leaves it with a status that is neither.
C19_FailureDemotes ==
    [][ ( /\ ReviewStep
          /\ HasRow(df, last'[1].card_id)
          /\ RowOf(df, last'[1].card_id).card_status \in {"review", "graduated"}
          /\ last'[1].result.quality < 3 )
          => RowOf(df', last'[1].card_id).card_status \notin {"review", "graduated"} ]_vars


\* The fields initialisation gives every card whatever the configuration, and
\* the content it copies from the frame it was given.
InitialisedRows(frame, items, day) ==
    /\ Len(frame) = Len(items)
    /\ \A i \in 1 .. Len(frame) :
          /\ frame[i].ease_factor = 250
          /\ frame[i].repetitions = 0
          /\ frame[i].card_status = "new"
          /\ frame[i].last_review = NoCell
          /\ frame[i].total_reviews = 0
          /\ frame[i].next_review = DateCell(day)
          /\ frame[i].text = items[i].text
          /\ frame[i].language = items[i].language
          /\ frame[i].cefr_level = items[i].cefr_level

\* C20 as claimed: every card produced by initialisation has interval 1, ease
\* factor 2.5, repetitions 0, status new, no last_review, total_reviews 0 and
\* next_review today, and its content copied, under every configuration.
C20_InitDefaults ==
    [][ df' # df
          => /\ InitialisedRows(df', content', today')
             /\ \A i \in 1 .. Len(df') : df'[i].interval = 1 ]_vars

\* C20, amended: as claimed, except that the interval of every initialised
\* card is the scheduler's configured initial_interval (1 by default).
C20_InitFromConfiguration ==
    [][ df' # df
          => /\ InitialisedRows(df', content', today')
             /\ \A i \in 1 .. Len(df') : df'[i].interval = initial_interval ]_vars

C20_Witness ==
    /\ initial_interval # 1
    /\ Len(df) >= 2
    /\ df[1].text # df[2].text
    /\ df[1].next_review = DateCell(today)
    /\ today > 0


\* C21: get_due_cards, get_learning_statistics and suggest_study_session are
\* read-only: a step in which one of them returns leaves every field of every
\* row of the frame passed to it as it was, next_review included.
C21_ReadersLeaveStore ==
    [][ (due' # due \/ stats' # stats \/ session' # session) => df' = df ]_vars

\* C25: a row whose next_review cannot be parsed is treated as due at once:
\* get_due_cards returns, and its result holds that row for every date.
C25_UnparseableIsDue ==
    due # << >> =>
        /\ due[1].ok
        /\ \A i \in 1 .. Len(df) :
              df[i].next_review = BadCell
                 => \E j \in 1 .. Len(due[1].rows) : due[1].rows[j].card_id = df[i].card_id

\* C28: in every session plan the card_breakdown counts the selected cards of
\* every status, so its counts sum to recommended_cards.
C28_BreakdownSums ==
    (session # << >> /\ session[1].ok)
        => session[1].card_breakdown.new + session[1].card_breakdown.review
              + session[1].card_breakdown.learning = session[1].recommended_cards

\* C29: in every statistics report the per-status counts sum to total_cards,
\* and due_today is the number of rows get_due_cards returns for today.
C29_StatusCountsCoverStore ==
    (stats # << >> /\ stats[1].ok)
        => /\ stats[1].new_cards + stats[1].learning_cards + stats[1].review_cards
                 = stats[1].total_cards
           /\ stats[1].due_today = Len(DueCards(df, today))


\* C22: two exports of the same cards by the same exporter, with no review in
\* between, leave the same file content.
C22_ExportIdempotent ==
    \A i \in 1 .. Len(exported), j \in 1 .. Len(exported) :
        (exported[i].exporter = exported[j].exporter /\ exported[i].rows = exported[j].rows)
            => exported[i].file = exported[j].file

\* C22 witness: each exporter has written a frame of two cards twice.
C22_Witness ==
    /\ Len(exported) = 4
    /\ Len(df) = 2
    /\ \E i \in 1 .. 4, j \in 1 .. 4 :
          /\ i < j
          /\ exported[i].exporter = "scheduler"
          /\ exported[j].exporter = "scheduler"
          /\ exported[i].rows = df
          /\ exported[j].rows = df
    /\ \E i \in 1 .. 4, j \in 1 .. 4 :
          /\ i < j
          /\ exported[i].exporter = "helper"
          /\ exported[j].exporter = "helper"

RECURSIVE SplitOn(_, _, _)
\* text.split(sep), with current the piece being read
SplitOn(text, sep, current) ==
    IF text = << >> THEN << current >>
    ELSE IF text[1] = sep THEN << current >> \o SplitOn(Tail(text), sep, << >>)
    ELSE SplitOn(Tail(text), sep, Append(current, text[1]))

\* The lines of a file; an empty file has none.
LinesOf(file) == IF file = << >> THEN << >> ELSE SplitOn(file, NL, << >>)

\* The back of a card as claimed: Language, Level and, if there is one, Translation.
ClaimedBack(row) ==
    << "Language: " >> \o row.language \o << "<br>", "Level: " >> \o row.cefr_level
       \o (IF NotNa(row.translation) THEN << "<br>", "Translation: " >> \o row.translation
           ELSE << >>)

\* C23: the file of every export has one line per exported card, and each line
\* is three tab-separated fields: the card's text, the back as claimed, the tags.
C23_ThreeFieldsPerCard ==
    \A e \in 1 .. Len(exported) :
        LET lines == LinesOf(exported[e].file)
            rows == exported[e].rows
        IN  /\ Len(lines) = Len(rows)
            /\ \A k \in 1 .. Len(rows) :
                  LET fields == SplitOn(lines[k], TAB, << >>)
                  IN  /\ Len(fields) = 3
                      /\ fields[1] = rows[k].text
                      /\ fields[2] = ClaimedBack(rows[k])


C26_EaseFromQualityOnly ==
    /\ [](last # << >> =>
            LET res == last[1].result
            IN  /\ res.quality = 5 => res.ease_factor = 260
                /\ res.quality = 4 => res.ease_factor = 250
                /\ res.quality = 3 => res.ease_factor = 236
                /\ res.quality < 3 => res.ease_factor = 230)
    /\ [][ (ReviewStep /\ last # << >> /\ last'[1].result.quality = last[1].result.quality)
             => last'[1].result.ease_factor = last[1].result.ease_factor ]_vars

\* C26 witness: a card held with ease factor 1.3 after three successes is
\* reviewed with quality 5 and gets 2.6.
C26_Witness ==
    /\ last # << >>
    /\ HasCard(last[1].card_id)
    /\ cards[last[1].card_id].ease_factor = 130
    /\ cards[last[1].card_id].repetitions = 3
    /\ last[1].result.repetitions = 4
    /\ last[1].result.quality = 5
    /\ last[1].result.ease_factor = 260


\* The due list asked for today holds the card.
AppearsDue(c) ==
    /\ due # << >>
    /\ due[1].ok
    /\ due[1].date = today
    /\ HasRow(due[1].rows, c)

\* C27: there is no terminal state: whatever a stored card's status and
\* whatever reviews it has had, if the date keeps advancing the card always
\* comes to appear in get_due_cards for today again.
C27_NoTerminalState ==
    \A c \in 0 .. (MaxLiveCards - 1) : [](HasRow(df, c) => <>AppearsDue(c))

\* C27 witness: a graduated card stored with a later next_review has been
\* reviewed, and appears in the due list of the day it falls due.
C27_Witness ==
    /\ today > 0
    /\ last # << >>
    /\ last[1].card_id = 0
    /\ AppearsDue(0)
    /\ RowOf(df, 0).card_status = "graduated"
    /\ RowOf(df, 0).next_review = DateCell(today)


\* C30: once a budget limit has been set, check_budget_status returns status
\* 'active' with the alert level of the spending it reports (normal below 80%
\* of the limit, warning from 80%, critical from 90%), in every month and for
\* every recorded usage; it never fails.
C30_BudgetStatusActive ==
    (budget_status # << >> /\ budget_status[1].status # "no_budget_set")
        => /\ budget_status[1].status = "active"
           /\ LET spent == budget_status[1].monthly_spent
                  limit == budget_status[1].monthly_budget
              IN  budget_status[1].alert_level =
                     (IF spent * 100 >= 90 * limit THEN "critical"
                      ELSE IF spent * 100 >= 80 * limit THEN "warning"
                      ELSE "normal")

====
